---- MODULE Spec2Model ----
(***************************************************************************)
(* Model of favclip/genbase parsing.go: loading a package (parsePackage),  *)
(* collecting its type declarations (TypeInfos, CollectTypeInfos,          *)
(* CollectTaggedTypeInfos), looking up imports (FindImportSpecByIdent) and *)
(* classifying struct fields (FieldInfo.IsPtr ... IsInt).                  *)
(*                                                                         *)
(* A Go string the code takes apart (a file name, an import path) is a     *)
(* sequence of one-character strings; a Go pointer that may be nil is a    *)
(* record with an isNil field.                                             *)
(***************************************************************************)
EXTENDS Integers, Sequences, FiniteSets, TLC

VARIABLES
    parser,     \* the Parser value: [SkipSemanticsCheck]
    pc,         \* "new" before a load, then "loaded" or "failed"; "field"/"import" in the other specifications
    call,       \* the load call made: [mode, directory, fileNames, codes, checkErr]
    pkg,        \* the *PackageInfo the load returned (isNil when none)
    err,        \* the error the load returned ("nil" when none)
    lastOp,     \* the last query made on pkg
    lastArg,    \* its argument: a tag, or a list of names
    ret,        \* its result: a sequence of TypeInfo
    nameRet,    \* the result of the last PackageInfo.Name()
    tagsSeen,   \* the tags CollectTaggedTypeInfos has been called with so far
    field,      \* a FieldInfo under classification (its Type expression)
    fileInfo,   \* a FileInfo whose imports are searched
    flags,      \* what the predicates of FieldInfo answered for field
    ident,      \* the identifier passed to FindImportSpecByIdent
    impRet      \* the *ast.ImportSpec it returned

vars == <<parser, pc, call, pkg, err, lastOp, lastArg, ret, nameRet, tagsSeen, field, flags, fileInfo, ident, impRet>>

\* ------------------------------------------------------------------ bounds
MaxFiles == 2       \* longest list of file names passed to a load
MaxNames == 2       \* longest list of names passed to CollectTypeInfos
MaxDepth == 3       \* wrapper layers around a field's base type
MaxImports == 2     \* imports of the file searched by FindImportSpecByIdent

\* ------------------------------------------------------------------ strings
RECURSIVE SeqsUpTo(_, _)
SeqsUpTo(S, n) ==
    IF n = 0 THEN {<<>>}
    ELSE LET shorter == SeqsUpTo(S, n - 1)
         IN  shorter \cup {Append(s, x) : s \in {t \in shorter : Len(t) = n - 1}, x \in S}

HasSuffix(s, suffix) ==
    /\ Len(s) >= Len(suffix)
    /\ SubSeq(s, Len(s) - Len(suffix) + 1, Len(s)) = suffix

DotGo == <<".", "g", "o">>

\* ------------------------------------------------------------------ syntax trees
\* What go/parser hands back: every node carries its position in the text
\* (token.Pos), and the children of a node follow it in the text.
NilDoc == [isNil |-> TRUE, List |-> <<>>]
NilComment == [isNil |-> TRUE, Slash |-> 0, Text |-> <<>>]
Comment(pos, text) == [isNil |-> FALSE, Slash |-> pos, Text |-> text]
CommentGroup(list) == [isNil |-> FALSE, List |-> list]

Node(kind, pos, tok, name, doc, list) ==
    [kind |-> kind, Pos |-> pos, Tok |-> tok, Name |-> name, Doc |-> doc, List |-> list]

TypeSpec(pos, name, doc) == Node("TypeSpec", pos, "", name, doc, <<>>)
\* a type whose expression holds a function literal: type N [len(func(){ ... })]int
TypeSpecWith(pos, name, doc, inner) == Node("TypeSpec", pos, "", name, doc, inner)
ValueSpec(pos, name) == Node("ValueSpec", pos, "", name, NilDoc, <<>>)
ImportSpecNode(pos) == Node("ImportSpec", pos, "", "", NilDoc, <<>>)
GenDecl(pos, tok, doc, specs) == Node("GenDecl", pos, tok, "", doc, specs)
FuncDecl(pos, name, body) == Node("FuncDecl", pos, "", name, NilDoc, body)
DeclStmt(decl) == Node("DeclStmt", decl.Pos, "", "", NilDoc, <<decl>>)
ExprStmt(pos) == Node("ExprStmt", pos, "", "", NilDoc, <<>>)
File(name, decls) == Node("File", 1, "", name, NilDoc, decls)

\* package p
\* // +x grp
\* type (
\*     A struct{}
\*     // note
\*     // +y
\*     B int
\* )
\* func f() { g(); type L int }
\* var v int
\* type C [len(func() { type M int })]int
AstA ==
    File("p", <<
        GenDecl(20, "TYPE", CommentGroup(<<Comment(10, <<"//", "+x", "grp">>)>>), <<
            TypeSpec(21, "A", NilDoc),
            TypeSpec(32, "B", CommentGroup(<<Comment(30, <<"//", "note">>),
                                             Comment(31, <<"//", "+y">>)>>)) >>),
        FuncDecl(40, "f", <<
            ExprStmt(41),
            DeclStmt(GenDecl(42, "TYPE", NilDoc, <<TypeSpec(43, "L", NilDoc)>>)) >>),
        GenDecl(50, "VAR", NilDoc, <<ValueSpec(51, "v")>>),
        GenDecl(60, "TYPE", NilDoc, <<
            TypeSpecWith(61, "C", NilDoc, <<
                DeclStmt(GenDecl(62, "TYPE", NilDoc, <<TypeSpec(63, "M", NilDoc)>>)) >>) >>) >>)

\* package p
\* import "x"
\* // +x 1
\* // +x 2
\* // +y
\* type D struct{}
\* type A int
\* type ()
AstB ==
    File("p", <<
        GenDecl(10, "IMPORT", NilDoc, <<ImportSpecNode(11)>>),
        GenDecl(23, "TYPE", CommentGroup(<<Comment(20, <<"//", "+x", "1">>),
                                           Comment(21, <<"//", "+x", "2">>),
                                           Comment(22, <<"//", "+y">>)>>),
                <<TypeSpec(24, "D", NilDoc)>>),
        GenDecl(30, "TYPE", NilDoc, <<TypeSpec(31, "A", NilDoc)>>),
        GenDecl(40, "TYPE", NilDoc, <<>>) >>)

\* package q
\* var w int
AstE == File("q", <<GenDecl(10, "VAR", NilDoc, <<ValueSpec(11, "w")>>)>>)

\* ------------------------------------------------------------------ environment
\* Source texts, and what parser.ParseFile makes of each.
SrcTexts == {"srcA", "srcB", "srcE", "srcBad"}

SyntaxTree(text) ==
    CASE text = "srcA" -> [ok |-> TRUE, file |-> AstA]
      [] text = "srcB" -> [ok |-> TRUE, file |-> AstB]
      [] text = "srcE" -> [ok |-> TRUE, file |-> AstE]
      [] OTHER -> [ok |-> FALSE, file |-> AstE]

PathA == <<"p", "/", "a", ".", "g", "o">>
PathB == <<"p", "/", "b", ".", "g", "o">>
PathS == <<"p", "/", "c", ".", "s">>
PathD == <<"q", "/", "d", ".", "g", "o">>
PathE == <<"e", ".", "g", "o">>
PathGo == <<"g", "o">>

FileNameUniverse == {PathA, PathB, PathS, PathD}

\* The files on disk: the text of each, "" for a file that cannot be read.
Disk(path) ==
    CASE path = PathA -> "srcA"
      [] path = PathB -> "srcB"
      [] path = PathD -> "srcBad"
      [] path = PathE -> "srcE"
      [] path = PathS -> "srcBad"
      [] OTHER -> ""

\* build.Default.ImportDir: the directories it knows.
Directories == {<<"p">>, <<"q">>, <<"t">>, <<"z">>}

ImportDir(directory) ==
    CASE directory = <<"p">> ->
            [ok |-> TRUE, GoFiles |-> <<<<"a", ".", "g", "o">>>>,
             CgoFiles |-> <<<<"b", ".", "g", "o">>>>, SFiles |-> <<<<"c", ".", "s">>>>]
      [] directory = <<"q">> ->
            [ok |-> TRUE, GoFiles |-> <<<<"d", ".", "g", "o">>>>,
             CgoFiles |-> <<>>, SFiles |-> <<>>]
      [] directory = <<"t">> ->
            [ok |-> TRUE, GoFiles |-> <<>>, CgoFiles |-> <<>>, SFiles |-> <<<<"c", ".", "s">>>>]
      [] OTHER -> [ok |-> FALSE, GoFiles |-> <<>>, CgoFiles |-> <<>>, SFiles |-> <<>>]


\* ------------------------------------------------------------------ loading
NilPkg == [isNil |-> TRUE, Dir |-> <<>>, Files |-> <<>>, Types |-> "nil"]
NoCode == <<>>      \* the nil interface{} passed to parser.ParseFile

\* filepath.Join of the directory with each name.
pathJoinAll(directory, names) ==
    [i \in 1..Len(names) |-> directory \o <<"/">> \o names[i]]

\* parser.ParseFile(fs, fileName, code, parser.ParseComments): the text is
\* code when one is given and the file's text on disk otherwise.
ParseFile(fileName, code) ==
    LET text == IF code = NoCode THEN Disk(fileName) ELSE code[1]
    IN  SyntaxTree(text)

\* The loop of parsePackage from the file at idx on, files being those parsed so far.
RECURSIVE parseLoop(_, _, _, _)
parseLoop(fileNames, codes, idx, files) ==
    IF idx > Len(fileNames) THEN [err |-> "nil", files |-> files]
    ELSE IF ~HasSuffix(fileNames[idx], DotGo) THEN parseLoop(fileNames, codes, idx + 1, files)
    ELSE LET code == IF idx <= Len(codes) THEN <<codes[idx]>> ELSE NoCode
             parsed == ParseFile(fileNames[idx], code)
         IN  IF ~parsed.ok THEN [err |-> "parsing package", files |-> <<>>]
             ELSE parseLoop(fileNames, codes, idx + 1, Append(files, parsed.file))

\* checkErr is whether types.Config.Check reported an error on the files.
parsePackage_NoEmptyCheck(p, directory, fileNames, codes, checkErr) ==
    LET loop == parseLoop(fileNames, codes, 1, <<>>)
        loaded == [isNil |-> FALSE, Dir |-> directory, Files |-> loop.files, Types |-> "nil"]
    IN  IF loop.err # "nil" THEN [pkg |-> NilPkg, err |-> loop.err]
        ELSE IF p.SkipSemanticsCheck /\ checkErr THEN [pkg |-> loaded, err |-> "nil"]
        ELSE IF checkErr THEN [pkg |-> NilPkg, err |-> "check"]
        ELSE [pkg |-> [loaded EXCEPT !.Types = "package"], err |-> "nil"]

parsePackage_TypesBeforeCheck(p, directory, fileNames, codes, checkErr) ==
    LET loop == parseLoop(fileNames, codes, 1, <<>>)
        loaded == [isNil |-> FALSE, Dir |-> directory, Files |-> loop.files, Types |-> "package"]
    IN  IF loop.err # "nil" THEN [pkg |-> NilPkg, err |-> loop.err]
        ELSE IF Len(loop.files) = 0 THEN [pkg |-> NilPkg, err |-> "no buildable Go files"]
        ELSE IF p.SkipSemanticsCheck /\ checkErr THEN [pkg |-> loaded, err |-> "nil"]
        ELSE IF checkErr THEN [pkg |-> NilPkg, err |-> "check"]
        ELSE [pkg |-> loaded, err |-> "nil"]

parsePackage(p, directory, fileNames, codes, checkErr) ==
    LET loop == parseLoop(fileNames, codes, 1, <<>>)
        loaded == [isNil |-> FALSE, Dir |-> directory, Files |-> loop.files, Types |-> "nil"]
    IN  IF loop.err # "nil" THEN [pkg |-> NilPkg, err |-> loop.err]
        ELSE IF Len(loop.files) = 0 THEN [pkg |-> NilPkg, err |-> "no buildable Go files"]
        ELSE IF p.SkipSemanticsCheck /\ checkErr THEN [pkg |-> loaded, err |-> "nil"]
        ELSE IF checkErr THEN [pkg |-> NilPkg, err |-> "check"]
        ELSE [pkg |-> [loaded EXCEPT !.Types = "package"], err |-> "nil"]

ParsePackageDir(p, directory, checkErr) ==
    LET imported == ImportDir(directory)
        names == pathJoinAll(directory, imported.GoFiles \o imported.CgoFiles \o imported.SFiles)
    IN  IF ~imported.ok THEN [pkg |-> NilPkg, err |-> "cannot process directory"]
        ELSE parsePackage(p, directory, names, <<>>, checkErr)

ParsePackageFiles(p, fileNames, checkErr) ==
    parsePackage(p, <<".">>, fileNames, <<>>, checkErr)

ParseStringSource(p, fileName, code, checkErr) ==
    parsePackage(p, <<".">>, <<fileName>>, <<code>>, checkErr)

\* ------------------------------------------------------------------ collecting
\* A TypeInfo; FileInfo is the index in pkg.Files of the file it points to.
NewTypeInfo(file, decl, ts) ==
    [FileInfo |-> file, GenDecl |-> decl, TypeSpec |-> ts, AnnotatedComment |-> NilComment]

\* The specs of decl that are *ast.TypeSpec, in order.
TypeSpecsOf(decl) == SelectSeq(decl.List, LAMBDA spec : spec.kind = "TypeSpec")

\* ast.Inspect(node, f) with the callback of TypeInfos: the TypeInfos appended
\* while walking node, depth first, a node before its children.
RECURSIVE Inspect(_, _)
RECURSIVE InspectList(_, _, _)
Inspect(file, node) ==
    IF node.kind = "GenDecl" /\ node.Tok = "TYPE"
    THEN LET specs == TypeSpecsOf(node)
             found == Len(specs) > 0
         IN  [i \in 1..Len(specs) |-> NewTypeInfo(file, node, specs[i])]
                 \o (IF found THEN <<>> ELSE InspectList(file, node.List, 1))
    ELSE InspectList(file, node.List, 1)

InspectList(file, list, i) ==
    IF i > Len(list) THEN <<>>
    ELSE Inspect(file, list[i]) \o InspectList(file, list, i + 1)

\* The loop of TypeInfos over pkg.Files from file i on (parsePackage puts no
\* nil file in pkg.Files, so the nil test of the loop never skips one).
RECURSIVE typeInfosFrom(_, _)
typeInfosFrom(files, i) ==
    IF i > Len(files) THEN <<>>
    ELSE Inspect(i, files[i]) \o typeInfosFrom(files, i + 1)

RECURSIVE typeInfosDownFrom(_, _)
typeInfosDownFrom(files, i) ==
    IF i < 1 THEN <<>>
    ELSE Inspect(i, files[i]) \o typeInfosDownFrom(files, i - 1)

TypeInfos_Reversed(p) == typeInfosDownFrom(p.Files, Len(p.Files))

\* A TypeInfos that keeps the TypeInfo it built for a type in an earlier call.
TypeInfos_Cached(p) ==
    LET fresh == typeInfosFrom(p.Files, 1)
        Kept(t) == {j \in 1..Len(ret) : ret[j].FileInfo = t.FileInfo /\ ret[j].TypeSpec = t.TypeSpec}
    IN  [i \in 1..Len(fresh) |->
            IF Kept(fresh[i]) = {} THEN fresh[i] ELSE ret[CHOOSE j \in Kept(fresh[i]) : TRUE]]

TypeInfos(p) == typeInfosFrom(p.Files, 1)

TypeInfoName(t) == t.TypeSpec.Name

Doc(t) ==
    IF ~t.TypeSpec.Doc.isNil THEN t.TypeSpec.Doc
    ELSE IF ~t.GenDecl.Doc.isNil THEN t.GenDecl.Doc
    ELSE NilDoc

\* A comment line carries a tag when the word after its // marker is the tag.
CarriesTag(c, tag) == Len(c.Text) >= 2 /\ c.Text[1] = "//" /\ c.Text[2] = tag

findAnnotation(cg, tag) ==
    IF cg.isNil THEN NilComment
    ELSE LET hits == {i \in 1..Len(cg.List) : CarriesTag(cg.List[i], tag)}
         IN  IF hits = {} THEN NilComment
             ELSE cg.List[CHOOSE i \in hits : \A j \in hits : i <= j]

RECURSIVE collectTagged(_, _, _)
collectTagged(types, tag, i) ==
    IF i > Len(types) THEN <<>>
    ELSE LET c == findAnnotation(Doc(types[i]), tag)
         IN  (IF ~c.isNil THEN <<[types[i] EXCEPT !.AnnotatedComment = c]>> ELSE <<>>)
                 \o collectTagged(types, tag, i + 1)

CollectTaggedTypeInfos_NoNilCheck(p, tag) ==
    LET types == TypeInfos(p)
    IN  [i \in 1..Len(types) |->
            [types[i] EXCEPT !.AnnotatedComment = findAnnotation(Doc(types[i]), tag)]]

CollectTaggedTypeInfos(p, tag) == collectTagged(TypeInfos(p), tag, 1)

\* The loops of CollectTypeInfos: t is appended at the first name equal to its
\* own, and the walk goes on with the next t (continue outer).
RECURSIVE collectNamed(_, _, _)
collectNamed(types, typeNames, i) ==
    IF i > Len(types) THEN <<>>
    ELSE (IF \E k \in 1..Len(typeNames) : TypeInfoName(types[i]) = typeNames[k]
          THEN <<types[i]>> ELSE <<>>)
             \o collectNamed(types, typeNames, i + 1)

RECURSIVE collectNamedNoContinue(_, _, _, _)
collectNamedNoContinue(types, typeNames, i, k) ==
    IF i > Len(types) THEN <<>>
    ELSE IF k > Len(typeNames) THEN collectNamedNoContinue(types, typeNames, i + 1, 1)
    ELSE (IF TypeInfoName(types[i]) = typeNames[k] THEN <<types[i]>> ELSE <<>>)
             \o collectNamedNoContinue(types, typeNames, i, k + 1)

CollectTypeInfos_NoContinue(p, typeNames) ==
    collectNamedNoContinue(TypeInfos(p), typeNames, 1, 1)

CollectTypeInfos(p, typeNames) == collectNamed(TypeInfos(p), typeNames, 1)

PackageInfoName(p) == p.Files[1].Name


\* ------------------------------------------------------------------ imports
Quote == "\""
NoAlias == [isNil |-> TRUE, Name |-> <<>>]
Alias(name) == [isNil |-> FALSE, Name |-> name]
\* An *ast.ImportSpec: Path.Value is the path literal, quotes included.
Import(alias, path) == [Name |-> alias, Path |-> [Value |-> <<Quote>> \o path \o <<Quote>>]]

NilImport == [isNil |-> TRUE, index |-> 0]

\* The loop of FindImportSpecByIdent from import i on; the result points to
\* an element of file.Imports by its index.
RECURSIVE findImportFrom(_, _, _)
findImportFrom(imports, packageIdent, i) ==
    IF i > Len(imports) THEN NilImport
    ELSE LET imp == imports[i]
         IN  IF ~imp.Name.isNil /\ imp.Name.Name = packageIdent
                 THEN [isNil |-> FALSE, index |-> i]
             ELSE IF HasSuffix(imp.Path.Value, <<"/">> \o packageIdent \o <<Quote>>)
                 THEN [isNil |-> FALSE, index |-> i]
             ELSE IF imp.Path.Value = <<Quote>> \o packageIdent \o <<Quote>>
                 THEN [isNil |-> FALSE, index |-> i]
             ELSE findImportFrom(imports, packageIdent, i + 1)

FindImportSpecByIdent(file, packageIdent) == findImportFrom(file.Imports, packageIdent, 1)

\* ------------------------------------------------------------------ fields
\* Type expressions: X is the operand of a wrapper (<<>> for a leaf), Name the
\* identifier, or the selected name with Pkg the package of a selector.
IdentExpr(name) == [kind |-> "Ident", Pkg |-> "", Name |-> name, X |-> <<>>]
SelectorExpr(pkgName, name) == [kind |-> "SelectorExpr", Pkg |-> pkgName, Name |-> name, X |-> <<>>]
StarExpr(x) == [kind |-> "StarExpr", Pkg |-> "", Name |-> "", X |-> <<x>>]
ArrayType(elt) == [kind |-> "ArrayType", Pkg |-> "", Name |-> "", X |-> <<elt>>]
MapType == [kind |-> "MapType", Pkg |-> "", Name |-> "", X |-> <<>>]

\* The base type name of a type expression: pointer and array layers are
\* unwrapped one at a time down to an identifier or a selector; any other
\* expression is an error.
RECURSIVE ExprToBaseTypeName(_)
ExprToBaseTypeName(expr) ==
    CASE expr.kind = "Ident" -> [err |-> FALSE, typeName |-> expr.Name]
      [] expr.kind = "SelectorExpr" -> [err |-> FALSE, typeName |-> expr.Pkg \o "." \o expr.Name]
      [] expr.kind = "StarExpr" -> ExprToBaseTypeName(expr.X[1])
      [] expr.kind = "ArrayType" -> ExprToBaseTypeName(expr.X[1])
      [] OTHER -> [err |-> TRUE, typeName |-> ""]

IsPtr(f) == f.Type.kind = "StarExpr"

IsArray(f) == f.Type.kind = "ArrayType"

IsPtrArray(f) ==
    IF f.Type.kind # "StarExpr" THEN FALSE
    ELSE f.Type.X[1].kind = "ArrayType"

IsArrayPtr_Swapped(f) ==
    IF f.Type.kind # "StarExpr" THEN FALSE
    ELSE f.Type.X[1].kind = "ArrayType"

IsArrayPtr(f) ==
    IF f.Type.kind # "ArrayType" THEN FALSE
    ELSE f.Type.X[1].kind = "StarExpr"

IsPtrArrayPtr(f) ==
    IF f.Type.kind # "StarExpr" THEN FALSE
    ELSE IF f.Type.X[1].kind # "ArrayType" THEN FALSE
    ELSE f.Type.X[1].X[1].kind = "StarExpr"

IsInt64(f) ==
    LET base == ExprToBaseTypeName(f.Type)
    IN  IF base.err THEN FALSE ELSE base.typeName = "int64"

IsInt_NotWrapped(f) == f.Type.kind = "Ident" /\ f.Type.Name = "int"

IsInt(f) ==
    LET base == ExprToBaseTypeName(f.Type)
    IN  IF base.err THEN FALSE ELSE base.typeName = "int"

IsString(f) ==
    LET base == ExprToBaseTypeName(f.Type)
    IN  IF base.err THEN FALSE ELSE base.typeName = "string"

IsFloat32(f) ==
    LET base == ExprToBaseTypeName(f.Type)
    IN  IF base.err THEN FALSE ELSE base.typeName = "float32"

IsFloat64(f) ==
    LET base == ExprToBaseTypeName(f.Type)
    IN  IF base.err THEN FALSE ELSE base.typeName = "float64"

IsNumber(f) == IsInt(f) \/ IsInt64(f) \/ IsFloat32(f) \/ IsFloat64(f)

IsBool(f) ==
    LET base == ExprToBaseTypeName(f.Type)
    IN  IF base.err THEN FALSE ELSE base.typeName = "bool"

IsTime(f) ==
    LET base == ExprToBaseTypeName(f.Type)
    IN  IF base.err THEN FALSE ELSE base.typeName = "time.Time"


\* ------------------------------------------------------------------ inputs
Tags == {"+x", "+y"}
NameUniverse == {"A", "D", "Z"}
Idents == {<<"a">>, <<"b">>, <<"c">>}
ImportPaths == {<<"a">>, <<"b">>, <<"b", "/", "a">>, <<"a", "/", "b">>}
ImportUniverse ==
    {Import(alias, path) : alias \in {NoAlias, Alias(<<"a">>), Alias(<<"b">>)}, path \in ImportPaths}

BaseExprs ==
    {IdentExpr(n) : n \in {"int", "int64", "string", "float32", "float64", "bool", "T"}}
        \cup {SelectorExpr("time", "Time"), MapType}

RECURSIVE ExprsUpTo(_)
ExprsUpTo(depth) ==
    IF depth = 0 THEN BaseExprs
    ELSE LET inner == ExprsUpTo(depth - 1)
         IN  inner \cup {StarExpr(x) : x \in inner} \cup {ArrayType(x) : x \in inner}

ExprUniverse == ExprsUpTo(MaxDepth)

NoCall == [mode |-> "none", discovered |-> FALSE, fileNames |-> <<>>, codes |-> <<>>, checkErr |-> FALSE]
NoFlags ==
    [IsPtr |-> FALSE, IsArray |-> FALSE, IsPtrArray |-> FALSE, IsArrayPtr |-> FALSE,
     IsPtrArrayPtr |-> FALSE, IsInt |-> FALSE, IsInt64 |-> FALSE, IsString |-> FALSE,
     IsFloat32 |-> FALSE, IsFloat64 |-> FALSE, IsNumber |-> FALSE, IsBool |-> FALSE,
     IsTime |-> FALSE]
NoField == [Type |-> MapType]
NoFile == [Imports |-> <<>>]

\* ------------------------------------------------------------------ loading and querying a package
Init ==
    /\ parser \in [SkipSemanticsCheck : BOOLEAN]
    /\ pc = "new"
    /\ call = NoCall
    /\ pkg = NilPkg
    /\ err = "nil"
    /\ lastOp = "none"
    /\ lastArg = <<>>
    /\ ret = <<>>
    /\ nameRet = ""
    /\ tagsSeen = {}
    /\ field = NoField
    /\ flags = NoFlags
    /\ fileInfo = NoFile
    /\ ident = <<>>
    /\ impRet = NilImport

Returned(result) ==
    /\ pkg' = result.pkg
    /\ err' = result.err
    /\ pc' = IF result.err = "nil" THEN "loaded" ELSE "failed"
    /\ UNCHANGED <<parser, lastOp, lastArg, ret, nameRet, tagsSeen, field, flags, fileInfo, ident, impRet>>

CallParsePackageDir ==
    /\ pc = "new"
    /\ \E directory \in Directories, checkErr \in BOOLEAN :
        LET imported == ImportDir(directory)
        IN  /\ call' = [mode |-> "dir", discovered |-> imported.ok,
                        fileNames |-> pathJoinAll(directory,
                            imported.GoFiles \o imported.CgoFiles \o imported.SFiles),
                        codes |-> <<>>, checkErr |-> checkErr]
            /\ Returned(ParsePackageDir(parser, directory, checkErr))

CallParsePackageFiles ==
    /\ pc = "new"
    /\ \E fileNames \in SeqsUpTo(FileNameUniverse, MaxFiles), checkErr \in BOOLEAN :
        /\ call' = [mode |-> "files", discovered |-> TRUE, fileNames |-> fileNames,
                    codes |-> <<>>, checkErr |-> checkErr]
        /\ Returned(ParsePackageFiles(parser, fileNames, checkErr))

CallParseStringSource ==
    /\ pc = "new"
    /\ \E fileName \in {PathE, PathGo}, code \in SrcTexts, checkErr \in BOOLEAN :
        /\ call' = [mode |-> "string", discovered |-> TRUE, fileNames |-> <<fileName>>,
                    codes |-> <<code>>, checkErr |-> checkErr]
        /\ Returned(ParseStringSource(parser, fileName, code, checkErr))

Queried(op, arg, result) ==
    /\ lastOp' = op
    /\ lastArg' = arg
    /\ ret' = result
    /\ tagsSeen' = IF op = "CollectTaggedTypeInfos" THEN tagsSeen \cup {arg[1]} ELSE tagsSeen
    /\ UNCHANGED <<parser, pc, call, pkg, err, nameRet, field, flags, fileInfo, ident, impRet>>

CallTypeInfos ==
    /\ pc = "loaded"
    /\ Queried("TypeInfos", <<>>, TypeInfos(pkg))

CallCollectTaggedTypeInfos ==
    /\ pc = "loaded"
    /\ \E tag \in Tags : Queried("CollectTaggedTypeInfos", <<tag>>, CollectTaggedTypeInfos(pkg, tag))

CallCollectTypeInfos ==
    /\ pc = "loaded"
    /\ \E typeNames \in SeqsUpTo(NameUniverse, MaxNames) :
        Queried("CollectTypeInfos", typeNames, CollectTypeInfos(pkg, typeNames))

CallName ==
    /\ pc = "loaded"
    /\ nameRet' = PackageInfoName(pkg)
    /\ lastOp' = "Name"
    /\ lastArg' = <<>>
    /\ UNCHANGED <<parser, pc, call, pkg, err, ret, tagsSeen, field, flags, fileInfo, ident, impRet>>

Next ==
    \/ CallParsePackageDir
    \/ CallParsePackageFiles
    \/ CallParseStringSource
    \/ CallTypeInfos
    \/ CallCollectTaggedTypeInfos
    \/ CallCollectTypeInfos
    \/ CallName

Spec == Init /\ [][Next]_vars

\* ------------------------------------------------------------------ classifying a field
InitField ==
    /\ parser = [SkipSemanticsCheck |-> FALSE]
    /\ pc = "field"
    /\ call = NoCall
    /\ pkg = NilPkg
    /\ err = "nil"
    /\ lastOp = "none"
    /\ lastArg = <<>>
    /\ ret = <<>>
    /\ nameRet = ""
    /\ tagsSeen = {}
    /\ field \in [Type : ExprUniverse]
    /\ flags = NoFlags
    /\ fileInfo = NoFile
    /\ ident = <<>>
    /\ impRet = NilImport

Classify ==
    /\ pc = "field"
    /\ pc' = "classified"
    /\ flags' = [IsPtr |-> IsPtr(field), IsArray |-> IsArray(field),
                 IsPtrArray |-> IsPtrArray(field), IsArrayPtr |-> IsArrayPtr(field),
                 IsPtrArrayPtr |-> IsPtrArrayPtr(field), IsInt |-> IsInt(field),
                 IsInt64 |-> IsInt64(field), IsString |-> IsString(field),
                 IsFloat32 |-> IsFloat32(field), IsFloat64 |-> IsFloat64(field),
                 IsNumber |-> IsNumber(field), IsBool |-> IsBool(field),
                 IsTime |-> IsTime(field)]
    /\ UNCHANGED <<parser, call, pkg, err, lastOp, lastArg, ret, nameRet, tagsSeen, field, fileInfo, ident, impRet>>

NextField == Classify

SpecField == InitField /\ [][NextField]_vars

\* ------------------------------------------------------------------ looking up an import
InitImport ==
    /\ parser = [SkipSemanticsCheck |-> FALSE]
    /\ pc = "import"
    /\ call = NoCall
    /\ pkg = NilPkg
    /\ err = "nil"
    /\ lastOp = "none"
    /\ lastArg = <<>>
    /\ ret = <<>>
    /\ nameRet = ""
    /\ tagsSeen = {}
    /\ field = NoField
    /\ flags = NoFlags
    /\ fileInfo \in [Imports : SeqsUpTo(ImportUniverse, MaxImports)]
    /\ ident \in Idents
    /\ impRet = NilImport

CallFindImportSpecByIdent ==
    /\ pc = "import"
    /\ pc' = "found"
    /\ impRet' = FindImportSpecByIdent(fileInfo, ident)
    /\ UNCHANGED <<parser, call, pkg, err, lastOp, lastArg, ret, nameRet, tagsSeen, field, flags, fileInfo, ident>>

NextImport == CallFindImportSpecByIdent

SpecImport == InitImport /\ [][NextImport]_vars


\* ------------------------------------------------------------------ properties
GoNames(names) == SelectSeq(names, LAMBDA n : HasSuffix(n, DotGo))
CodeAt(c, i) == IF i <= Len(c.codes) THEN <<c.codes[i]>> ELSE NoCode
Finished == pc \in {"loaded", "failed"}
\* parsePackage was reached and each file with the extension parses
AllParse(c) ==
    \A i \in 1..Len(c.fileNames) :
        HasSuffix(c.fileNames[i], DotGo) => ParseFile(c.fileNames[i], CodeAt(c, i)).ok
Range(seq) == {seq[i] : i \in 1..Len(seq)}
\* The type specs of the type declarations among the declarations of a file.
TopLevelTypeSpecs(file) ==
    {ts \in UNION {Range(d.List) : d \in {d \in Range(file.List) : d.kind = "GenDecl" /\ d.Tok = "TYPE"}} :
        ts.kind = "TypeSpec"}
RECURSIVE Descendants(_)
Descendants(node) == {node} \cup UNION {Descendants(child) : child \in Range(node.List)}
Bare(t) == [t EXCEPT !.AnnotatedComment = NilComment]
InOrder(r) ==
    \A i, j \in 1..Len(r) :
        i < j => \/ r[i].FileInfo < r[j].FileInfo
                 \/ r[i].FileInfo = r[j].FileInfo /\ r[i].TypeSpec.Pos < r[j].TypeSpec.Pos

\* C1: TypeInfos returns the declarations by the input order of their files
\* and then by their position in the file (each declaration being one of the
\* file it names, and the files being those of the names given, in the order
\* given), and a repeated call returns the same sequence.
C1_FileThenTextOrder ==
    [][ /\ lastOp' = "TypeInfos" =>
            /\ InOrder(ret')
            /\ \A i \in 1..Len(ret') :
                /\ ret'[i].FileInfo \in 1..Len(pkg'.Files)
                /\ ret'[i].TypeSpec \in Descendants(pkg'.Files[ret'[i].FileInfo])
            /\ LET names == GoNames(call'.fileNames)
               IN  pkg'.Files = [k \in 1..Len(names) |->
                        IF call'.mode = "string" THEN SyntaxTree(call'.codes[k]).file
                        ELSE SyntaxTree(Disk(names[k])).file]
        /\ (lastOp = "TypeInfos" /\ lastOp' = "TypeInfos") => ret' = ret ]_vars

C1_Witness ==
    /\ lastOp = "TypeInfos"
    /\ \E i, j \in 1..Len(ret) : i < j /\ ret[i].FileInfo < ret[j].FileInfo
    /\ \E i, j \in 1..Len(ret) : i < j /\ ret[i].FileInfo = ret[j].FileInfo
    /\ pkg.Files[1] # pkg.Files[2]

\* C2: a load that finds no name with the .go extension returns the
\* no-buildable-files error and no package; a package that is returned holds
\* one file per name with the extension, at least one; a parse error comes
\* from a file with the extension only.
C2_NoSourceFiles ==
    /\ (Finished /\ call.discovered /\ GoNames(call.fileNames) = <<>>) =>
            (err = "no buildable Go files" /\ pkg.isNil)
    /\ ~pkg.isNil => Len(pkg.Files) >= 1
    /\ pc = "loaded" => (~pkg.isNil /\ Len(pkg.Files) = Len(GoNames(call.fileNames)))
    /\ err = "parsing package" => ~AllParse(call)

C2_Witness ==
    /\ pc = "failed"
    /\ err = "no buildable Go files"
    /\ call.mode = "dir"
    /\ Len(call.fileNames) >= 1

\* C3: when every file parses and the type check reports an error, a strict
\* load returns the error and no package, and a lenient load returns no error
\* and a package with every file, no Types, and whose TypeInfos holds the type
\* declarations of the files; when the check succeeds Types is set.
C3_LenientResolution ==
    (Finished /\ call.discovered /\ AllParse(call) /\ GoNames(call.fileNames) # <<>>) =>
        /\ (call.checkErr /\ ~parser.SkipSemanticsCheck) => (err = "check" /\ pkg.isNil)
        /\ (call.checkErr /\ parser.SkipSemanticsCheck) =>
                /\ err = "nil"
                /\ ~pkg.isNil
                /\ Len(pkg.Files) = Len(GoNames(call.fileNames))
                /\ pkg.Types = "nil"
                /\ lastOp = "TypeInfos" =>
                        \A k \in 1..Len(pkg.Files) : \A ts \in TopLevelTypeSpecs(pkg.Files[k]) :
                            \E i \in 1..Len(ret) : ret[i].FileInfo = k /\ ret[i].TypeSpec = ts
        /\ ~call.checkErr => (err = "nil" /\ ~pkg.isNil /\ pkg.Types = "package")

C3_Witness ==
    /\ pc = "loaded"
    /\ call.checkErr
    /\ parser.SkipSemanticsCheck
    /\ pkg.Types = "nil"
    /\ lastOp = "TypeInfos"
    /\ Len(ret) > 0

\* C4: TypeInfos returns one TypeInfo for each type spec of a top-level type
\* declaration of a loaded file and nothing else (a type declared in a
\* function body gives none).
C4_TopLevelOnly ==
    lastOp = "TypeInfos" =>
        /\ \A i \in 1..Len(ret) : ret[i].TypeSpec \in TopLevelTypeSpecs(pkg.Files[ret[i].FileInfo])
        /\ \A k \in 1..Len(pkg.Files) : \A ts \in TopLevelTypeSpecs(pkg.Files[k]) :
                Cardinality({i \in 1..Len(ret) : ret[i].FileInfo = k /\ ret[i].TypeSpec = ts}) = 1

\* C5: CollectTypeInfos(names) returns the TypeInfos whose name is one of
\* names, each once, in the order of TypeInfos; none when no name matches.
C5_ByName ==
    lastOp = "CollectTypeInfos" =>
        ret = SelectSeq(TypeInfos(pkg), LAMBDA t : t.TypeSpec.Name \in Range(lastArg))

C5_Witness ==
    /\ lastOp = "CollectTypeInfos"
    /\ Len(lastArg) = 2
    /\ lastArg[1] = lastArg[2]
    /\ Len(ret) = 2
    /\ Len(TypeInfos(pkg)) > 2

\* C6: when an import of the file has an alias equal to the identifier, the
\* import returned has that alias, whatever precedes it in the file; when no
\* import matches by alias, last path segment or whole path, none is returned.
MatchesAlias(imp, id) == ~imp.Name.isNil /\ imp.Name.Name = id
MatchesSegment(imp, id) == HasSuffix(imp.Path.Value, <<"/">> \o id \o <<Quote>>)
MatchesPath(imp, id) == imp.Path.Value = <<Quote>> \o id \o <<Quote>>
C6_AliasFirst ==
    pc = "found" =>
        /\ (\E i \in 1..Len(fileInfo.Imports) : MatchesAlias(fileInfo.Imports[i], ident)) =>
                (~impRet.isNil /\ MatchesAlias(fileInfo.Imports[impRet.index], ident))
        /\ (\A i \in 1..Len(fileInfo.Imports) :
                /\ ~MatchesAlias(fileInfo.Imports[i], ident)
                /\ ~MatchesSegment(fileInfo.Imports[i], ident)
                /\ ~MatchesPath(fileInfo.Imports[i], ident)) => impRet.isNil


PtrInt == StarExpr(IdentExpr("int"))
\* The kinds of the outermost n layers of a type expression.
RECURSIVE Layers(_, _)
Layers(expr, n) ==
    IF n = 0 THEN <<>>
    ELSE IF expr.X = <<>> THEN <<expr.kind>>
    ELSE <<expr.kind>> \o Layers(expr.X[1], n - 1)
\* The identifier under the pointer and array layers of an expression ("" if none).
RECURSIVE Innermost(_)
Innermost(expr) == IF expr.X = <<>> THEN expr ELSE Innermost(expr.X[1])

\* C7 as stated: for a field of type *int IsPtr is true and IsInt is false,
\* IsInt being true of an int under no pointer or array layer only.
C7_PtrIntNotInt ==
    pc = "classified" =>
        /\ field.Type = PtrInt => (flags.IsPtr /\ ~flags.IsInt)
        /\ field.Type = IdentExpr("int") => flags.IsInt
        /\ flags.IsInt => field.Type = IdentExpr("int")

\* C7 amended: for a field of type *int both IsPtr and IsInt are true; IsInt
\* is true exactly of the fields whose type is the identifier int under any
\* number of pointer and array layers, the plain int among them.
C7_PtrIntIsInt ==
    pc = "classified" =>
        /\ field.Type = PtrInt => (flags.IsPtr /\ flags.IsInt)
        /\ field.Type = IdentExpr("int") => (flags.IsInt /\ ~flags.IsPtr)
        /\ flags.IsInt <=> Innermost(field.Type) = IdentExpr("int")

C7_Witness == pc = "classified" /\ field.Type = PtrInt /\ flags.IsPtr

\* C8: of the five shape predicates exactly IsPtr holds of *T and exactly
\* IsArray of []T; of *[]T IsPtr and IsPtrArray hold and IsArray does not;
\* each predicate is decided by the outermost one, two or three layers its
\* name has; IsPtrArrayPtr implies IsPtrArray implies IsPtr, and IsArrayPtr
\* implies IsArray.
ShapeOf(fl) == <<fl.IsPtr, fl.IsArray, fl.IsPtrArray, fl.IsArrayPtr, fl.IsPtrArrayPtr>>
C8_ShapePredicates ==
    pc = "classified" =>
        /\ field.Type = StarExpr(IdentExpr("T")) => ShapeOf(flags) = <<TRUE, FALSE, FALSE, FALSE, FALSE>>
        /\ field.Type = ArrayType(IdentExpr("T")) => ShapeOf(flags) = <<FALSE, TRUE, FALSE, FALSE, FALSE>>
        /\ field.Type = StarExpr(ArrayType(IdentExpr("T"))) =>
                (flags.IsPtr /\ flags.IsPtrArray /\ ~flags.IsArray)
        /\ flags.IsPtrArrayPtr => flags.IsPtrArray
        /\ flags.IsPtrArray => flags.IsPtr
        /\ flags.IsArrayPtr => flags.IsArray
        /\ \A other \in ExprUniverse :
            LET g == [Type |-> other]
            IN  /\ Layers(other, 1) = Layers(field.Type, 1) =>
                        (IsPtr(g) = flags.IsPtr /\ IsArray(g) = flags.IsArray)
                /\ Layers(other, 2) = Layers(field.Type, 2) =>
                        (IsPtrArray(g) = flags.IsPtrArray /\ IsArrayPtr(g) = flags.IsArrayPtr)
                /\ Layers(other, 3) = Layers(field.Type, 3) =>
                        IsPtrArrayPtr(g) = flags.IsPtrArrayPtr

C8_Witness ==
    /\ pc = "classified"
    /\ field.Type = StarExpr(ArrayType(IdentExpr("T")))
    /\ flags.IsPtrArray

\* C9: every TypeInfo CollectTaggedTypeInfos returns has a documentation
\* comment (its own, or else that of its declaration), carries a comment of
\* that documentation as its annotation, and is one of TypeInfos, in the
\* order of TypeInfos.
IndexIn(all, t) == CHOOSE j \in 1..Len(all) : all[j] = Bare(t)
C9_TaggedHaveDoc ==
    lastOp = "CollectTaggedTypeInfos" =>
        LET all == TypeInfos(pkg)
        IN  /\ \A i \in 1..Len(ret) :
                /\ ~ret[i].TypeSpec.Doc.isNil \/ ~ret[i].GenDecl.Doc.isNil
                /\ ~ret[i].AnnotatedComment.isNil
                /\ ret[i].AnnotatedComment \in
                        Range(IF ~ret[i].TypeSpec.Doc.isNil THEN ret[i].TypeSpec.Doc.List
                              ELSE ret[i].GenDecl.Doc.List)
                /\ Bare(ret[i]) \in Range(all)
            /\ \A i, j \in 1..Len(ret) : i < j => IndexIn(all, ret[i]) < IndexIn(all, ret[j])

C9_Witness ==
    /\ lastOp = "CollectTaggedTypeInfos"
    /\ Len(ret) >= 2
    /\ \E i \in 1..Len(ret) : ret[i].TypeSpec.Doc.isNil
    /\ \E j \in 1..Len(TypeInfos(pkg)) :
            TypeInfos(pkg)[j].TypeSpec.Doc.isNil /\ TypeInfos(pkg)[j].GenDecl.Doc.isNil

\* C10: no query changes the package, and a TypeInfo carries an annotation in
\* the result of the CollectTaggedTypeInfos call that matched it only: the
\* results of TypeInfos and CollectTypeInfos carry none, and those of
\* CollectTaggedTypeInfos(tag) carry comments matched for tag.
C10_QueriesLeaveNoTrace ==
    [][ /\ pc = "loaded" => (pkg' = pkg /\ parser' = parser /\ pc' = pc)
        /\ lastOp' \in {"TypeInfos", "CollectTypeInfos"} =>
                \A i \in 1..Len(ret') : ret'[i].AnnotatedComment.isNil
        /\ lastOp' = "CollectTaggedTypeInfos" =>
                \A i \in 1..Len(ret') :
                    ret'[i].AnnotatedComment = findAnnotation(Doc(ret'[i]), lastArg'[1]) ]_vars

C10_Witness ==
    /\ lastOp = "TypeInfos"
    /\ tagsSeen = {"+x", "+y"}
    /\ \E i \in 1..Len(ret) : ~findAnnotation(Doc(ret[i]), "+x").isNil
    /\ \E i \in 1..Len(ret) : ~findAnnotation(Doc(ret[i]), "+y").isNil


====
